---- MODULE Spec2Model ----
(***************************************************************************)
(* Model of src/api.py: the TextAnalyzer facade (apply_corrections,        *)
(* translate_native_words, analyze_text, create_error_chart) and the HTTP  *)
(* endpoints built on it.  The grammar checker (tool.check) and the        *)
(* translator (translator.translate) are remote oracles: their results are *)
(* nondeterministic choices from bounded sets.                             *)
(*                                                                         *)
(* A Python str is a sequence of one-character strings.  The module is     *)
(* ASCII only, so the token "YA" stands for one non-ASCII (Cyrillic)       *)
(* character.                                                              *)
(***************************************************************************)
EXTENDS Integers, Sequences, FiniteSets, TLC

VARIABLES
    pc,             \* position of the routine / request being run
    route,          \* endpoint of the current request
    text,           \* the text argument (request.text)
    matches,        \* what tool.check(text) returned
    corrected_text, \* apply_corrections: the working text
    remaining,      \* apply_corrections: matches not yet visited by reversed()
    native_words,   \* translate_native_words: its argument
    translations,   \* translate_native_words: the dict being built
    attempts,       \* outcomes of the translator calls made, in call order
    analysis,       \* what analyze_text returned to the endpoint
    response,       \* what the endpoint returned (or that it raised)
    checks,         \* outcomes of the tool.check calls made for the request
    charts          \* arguments create_error_chart was called with

vars == <<pc, route, text, matches, corrected_text, remaining, native_words,
          translations, attempts, analysis, response, checks, charts>>

(***************************************************************************)
(* Bounds of the model.                                                    *)
(***************************************************************************)
\* apply_corrections on its own (SpecApply)
MaxTextLen == 2
MaxMatches == 2
\* translate_native_words on its own (SpecTranslate)
MaxWords == 3
\* analyze_text on its own (SpecAnalyze)
MaxAnalyzeLen == 1
MaxAnalyzeMatches == 2
\* the endpoints (Spec)
MaxReqLen == 1
MaxReqMatches == 1
MaxOutLen == 3

(***************************************************************************)
(* Characters and Python's str helpers.                                    *)
(***************************************************************************)
NonAsciiChar == "YA"
Whitespace == {" "}
AsciiChars == {"a", "b", "c", " ", ".", "?", "!"}

Min(a, b) == IF a < b THEN a ELSE b
Max(a, b) == IF a > b THEN a ELSE b

\* s[:n] and s[n:] with Python's clamping of an index past the end (n >= 0)
Take(s, n) == SubSeq(s, 1, Min(n, Len(s)))
Drop(s, n) == SubSeq(s, Min(n, Len(s)) + 1, Len(s))
\* s[a:b]
Slice(s, a, b) == Take(Drop(s, a), Max(b - a, 0))

\* all sequences over S of length at most n
RECURSIVE SeqsUpTo(_, _)
SeqsUpTo(S, n) ==
    IF n = 0 THEN {<<>>}
    ELSE LET shorter == SeqsUpTo(S, n - 1)
         IN  shorter \cup {Append(s, x) : s \in {t \in shorter : Len(t) = n - 1}, x \in S}

\* str.split(): the maximal runs of non-whitespace characters, in order
RECURSIVE SplitFrom(_, _, _)
SplitFrom(s, i, cur) ==
    IF i > Len(s) THEN (IF cur = <<>> THEN <<>> ELSE <<cur>>)
    ELSE IF s[i] \in Whitespace
         THEN (IF cur = <<>> THEN <<>> ELSE <<cur>>) \o SplitFrom(s, i + 1, <<>>)
         ELSE SplitFrom(s, i + 1, Append(cur, s[i]))

Split(s) == SplitFrom(s, 1, <<>>)

\* str.isascii()
IsAscii(w) == \A i \in 1..Len(w) : w[i] \in AsciiChars

(***************************************************************************)
(* The grammar oracle: tool.check(text) returns a list of matches whose    *)
(* spans lie inside the text; the code neither sorts nor checks them.      *)
(***************************************************************************)
IssueTypes == {"grammar", "spelling"}
Messages == {"msg"}
\* match.replacements: none, a deletion, or two candidates (first one used)
ReplacementLists == {<<>>, << <<>> >>, << <<"b", " ", "b">>, <<"c">> >>}

MatchesOf(t, types, repls) ==
    {m \in [offset : 0..Len(t), errorLength : 0..Len(t), ruleIssueType : types,
            message : Messages, replacements : repls] :
        m.offset + m.errorLength <= Len(t)}

SpansInside(t, ms) ==
    \A i \in 1..Len(ms) : ms[i].offset + ms[i].errorLength <= Len(t)

CheckResults(t, n, types, repls) == SeqsUpTo(MatchesOf(t, types, repls), n)

(***************************************************************************)
(* TextAnalyzer.apply_corrections                                          *)
(***************************************************************************)
\* faulty variant: splices the last candidate instead of the first
SpliceLastReplacement(s, m) ==
    IF m.replacements # <<>>
    THEN Take(s, m.offset) \o m.replacements[Len(m.replacements)]
            \o Drop(s, m.offset + m.errorLength)
    ELSE s

\* one iteration of the loop body, lines 28-35
Splice(s, m) ==
    IF m.replacements # <<>>
    THEN Take(s, m.offset) \o m.replacements[1] \o Drop(s, m.offset + m.errorLength)
    ELSE s

\* for match in reversed(matches): the k-th match first, then k-1, ...
RECURSIVE ApplyFrom(_, _, _)
ApplyFrom(s, ms, k) ==
    IF k = 0 THEN s ELSE ApplyFrom(Splice(s, ms[k]), ms, k - 1)

apply_corrections(t, ms) == ApplyFrom(t, ms, Len(ms))

(***************************************************************************)
(* SpecApply: apply_corrections run on every text and match list of the    *)
(* bounds, one loop iteration per step.                                    *)
(***************************************************************************)
ApplyAlphabet == {"a", NonAsciiChar}

\* faulty variant: visits the matches in list order
ForwardIndex(ms, rem) == Len(ms) - rem + 1

\* reversed(matches) yields matches[remaining] next
ReversedIndex(ms, rem) == rem

InitApply ==
    /\ text \in SeqsUpTo(ApplyAlphabet, MaxTextLen)
    /\ matches \in CheckResults(text, MaxMatches, {"grammar"}, ReplacementLists)
    /\ corrected_text = text
    /\ remaining = Len(matches)
    /\ pc = "apply_loop"
    /\ route = "none"
    /\ native_words = <<>>
    /\ translations = <<>>
    /\ attempts = <<>>
    /\ analysis = [kind |-> "none"]
    /\ response = [kind |-> "none"]
    /\ checks = <<>>
    /\ charts = <<>>

apply_corrections_iter ==
    /\ pc = "apply_loop"
    /\ remaining > 0
    /\ corrected_text' = Splice(corrected_text, matches[ReversedIndex(matches, remaining)])
    /\ remaining' = remaining - 1
    /\ UNCHANGED <<pc, route, text, matches, native_words, translations, attempts,
                   analysis, response, checks, charts>>

apply_corrections_return ==
    /\ pc = "apply_loop"
    /\ remaining = 0
    /\ pc' = "apply_returned"
    /\ response' = [kind |-> "value", value |-> corrected_text]
    /\ UNCHANGED <<route, text, matches, corrected_text, remaining, native_words,
                   translations, attempts, analysis, checks, charts>>

NextApply == apply_corrections_iter \/ apply_corrections_return

SpecApply == InitApply /\ [][NextApply]_vars

(***************************************************************************)
(* Claims about apply_corrections (checked under SpecApply).               *)
(***************************************************************************)
SpanEnd(m) == m.offset + m.errorLength

\* offsets in non-decreasing list order
NonDecreasingOffsets(ms) ==
    \A i \in 1..Len(ms) - 1 : ms[i].offset <= ms[i + 1].offset

\* every span ends at or before the offset of each later match of the list
EndsBeforeNext(ms) ==
    \A i, j \in 1..Len(ms) : i < j => SpanEnd(ms[i]) <= ms[j].offset

\* The simultaneous replacement in the original text, left to right: the text
\* between the spans is kept, a span with replacements becomes its first
\* replacement, a span without replacements is kept.
RECURSIVE SimultaneousFrom(_, _, _, _)
SimultaneousFrom(t, ms, i, pos) ==
    IF i > Len(ms) THEN Drop(t, pos)
    ELSE Slice(t, pos, ms[i].offset)
            \o (IF ms[i].replacements # <<>>
                THEN ms[i].replacements[1]
                ELSE Slice(t, ms[i].offset, SpanEnd(ms[i])))
            \o SimultaneousFrom(t, ms, i + 1, Max(pos, SpanEnd(ms[i])))

Simultaneous(t, ms) == SimultaneousFrom(t, ms, 1, 0)

\* C1: for spans inside the text, in ascending offset order and not
\* overlapping (each span ends at or before the next one starts),
\* apply_corrections returns the simultaneous replacement of every span that
\* has replacements by its first replacement, spans without replacements kept.
C1_SimultaneousReplacement ==
    (pc = "apply_returned" /\ SpansInside(text, matches) /\ EndsBeforeNext(matches))
        => response.value = Simultaneous(text, matches)

\* two corrections, the first changing the length of the text before the second
C1_Witness ==
    /\ pc = "apply_returned"
    /\ Len(matches) = 2
    /\ EndsBeforeNext(matches)
    /\ matches[1].replacements # <<>>
    /\ matches[2].replacements # <<>>
    /\ Len(matches[1].replacements[1]) # matches[1].errorLength
    /\ matches[2].errorLength > 0
    /\ response.value = Simultaneous(text, matches)
    /\ response.value # text

\* the match the loop is about to visit
Current == matches[ReversedIndex(matches, remaining)]

AboutToSplice ==
    /\ pc = "apply_loop"
    /\ remaining > 0
    /\ Current.replacements # <<>>

PrefixIntact ==
    Take(corrected_text, SpanEnd(Current)) = Take(text, SpanEnd(Current))

\* C2 as stated: for matches in non-decreasing offset order, whenever a match
\* is about to be spliced the working text up to the end of its span is still
\* the original text.
C2_AsStated ==
    (AboutToSplice /\ NonDecreasingOffsets(matches)) => PrefixIntact

\* C2 amended: the same, for matches in non-decreasing offset order none of
\* whose spans extends past the offset of a later match.
C2_PrefixIntact ==
    (AboutToSplice /\ NonDecreasingOffsets(matches) /\ EndsBeforeNext(matches))
        => PrefixIntact

\* a later match was spliced and changed the length; an earlier one is next
C2_Witness ==
    /\ AboutToSplice
    /\ remaining < Len(matches)
    /\ NonDecreasingOffsets(matches)
    /\ EndsBeforeNext(matches)
    /\ Len(corrected_text) # Len(text)
    /\ PrefixIntact

(***************************************************************************)
(* The translation oracle: translator.translate(...) returns an object     *)
(* with a .text, or raises.                                                *)
(***************************************************************************)
TranslatedTexts == {<<"b">>, <<"c">>}
\* str(e) of the exception raised by a failed call
FailureMessages == {<<"timeout">>, <<"refused">>}

TranslatorOutcomes ==
    [ok : {TRUE}, text : TranslatedTexts] \cup [ok : {FALSE}, message : FailureMessages]

\* one success and one failure, for the runs of analyze_text
BriefOutcomes == {[ok |-> TRUE, text |-> <<"b">>], [ok |-> FALSE, message |-> <<"timeout">>]}

(***************************************************************************)
(* TextAnalyzer.translate_native_words                                     *)
(***************************************************************************)
\* the key and the value of the dict returned for an empty word list
SentinelKey == <<"Net slov na rodnom yazyke">>
SentinelValue == <<"Perevod ne trebuetsya">>
Sentinel == SentinelKey :> SentinelValue

EmptyDict == [w \in {} |-> <<>>]

\* f"Oshibka perevoda: {str(e)}"
ErrorPrefix == "Oshibka perevoda: "
ErrorPlaceholder(message) == <<ErrorPrefix>> \o message

\* faulty variant: no except clause, a failed call ends the batch
TryTranslateUncaught(trs, word, out) ==
    IF out.ok
    THEN [raised |-> FALSE, dict |-> (word :> out.text) @@ trs]
    ELSE [raised |-> TRUE, dict |-> trs]

\* the body of the for loop, lines 65-71: the try and its except Exception
TryTranslate(trs, word, out) ==
    IF out.ok
    THEN [raised |-> FALSE, dict |-> (word :> out.text) @@ trs]
    ELSE [raised |-> FALSE, dict |-> (word :> ErrorPlaceholder(out.message)) @@ trs]

\* faulty variant: no guard for the empty list
EmptyGuardAbsent(words) == FALSE

\* if not native_words
NoWords(words) == words = <<>>

\* the loop over the words, each with the outcome of its translator call
RECURSIVE TranslateLoop(_, _, _, _)
TranslateLoop(trs, words, outs, i) ==
    IF i > Len(words) THEN [raised |-> FALSE, dict |-> trs, calls |-> Len(words)]
    ELSE LET r == TryTranslate(trs, words[i], outs[i])
         IN  IF r.raised THEN [raised |-> TRUE, dict |-> r.dict, calls |-> i]
             ELSE TranslateLoop(r.dict, words, outs, i + 1)

translate_native_words(words, outs) ==
    IF NoWords(words) THEN [raised |-> FALSE, dict |-> Sentinel, calls |-> 0]
    ELSE TranslateLoop(EmptyDict, words, outs, 1)

(***************************************************************************)
(* SpecTranslate: translate_native_words run on every word list of the     *)
(* bounds, one translator call per step.                                   *)
(***************************************************************************)
NativeWordSet == {<<NonAsciiChar>>, <<NonAsciiChar, "a">>}

InitTranslate ==
    /\ native_words \in SeqsUpTo(NativeWordSet, MaxWords)
    /\ translations = EmptyDict
    /\ attempts = <<>>
    /\ pc = "translate_entry"
    /\ route = "none"
    /\ text = <<>>
    /\ matches = <<>>
    /\ corrected_text = <<>>
    /\ remaining = 0
    /\ analysis = [kind |-> "none"]
    /\ response = [kind |-> "none"]
    /\ checks = <<>>
    /\ charts = <<>>

translate_no_words ==
    /\ pc = "translate_entry"
    /\ NoWords(native_words)
    /\ pc' = "translate_returned"
    /\ response' = [kind |-> "value", value |-> Sentinel]
    /\ UNCHANGED <<route, text, matches, corrected_text, remaining, native_words,
                   translations, attempts, analysis, checks, charts>>

translate_enter_loop ==
    /\ pc = "translate_entry"
    /\ ~NoWords(native_words)
    /\ pc' = "translate_loop"
    /\ UNCHANGED <<route, text, matches, corrected_text, remaining, native_words,
                   translations, attempts, analysis, response, checks, charts>>

translate_iter ==
    /\ pc = "translate_loop"
    /\ Len(attempts) < Len(native_words)
    /\ \E out \in TranslatorOutcomes :
          LET r == TryTranslate(translations, native_words[Len(attempts) + 1], out)
          IN  /\ attempts' = Append(attempts, out)
              /\ translations' = r.dict
              /\ IF r.raised
                 THEN /\ pc' = "translate_returned"
                      /\ response' = [kind |-> "raised", error |-> out.message]
                 ELSE UNCHANGED <<pc, response>>
    /\ UNCHANGED <<route, text, matches, corrected_text, remaining, native_words,
                   analysis, checks, charts>>

translate_return ==
    /\ pc = "translate_loop"
    /\ Len(attempts) = Len(native_words)
    /\ pc' = "translate_returned"
    /\ response' = [kind |-> "value", value |-> translations]
    /\ UNCHANGED <<route, text, matches, corrected_text, remaining, native_words,
                   translations, attempts, analysis, checks, charts>>

NextTranslate ==
    translate_no_words \/ translate_enter_loop \/ translate_iter \/ translate_return

SpecTranslate == InitTranslate /\ [][NextTranslate]_vars

(***************************************************************************)
(* Claims about translate_native_words (checked under SpecTranslate).      *)
(***************************************************************************)
WordsOf(words) == {words[i] : i \in 1..Len(words)}

\* the call whose result the dict holds for words[i]: the last one for that word
IsLastAttemptOf(words, i) == \A j \in (i + 1)..Len(words) : words[j] # words[i]

EntryMatchesOutcome(v, out) ==
    IF out.ok THEN v = out.text
    ELSE /\ Len(v) = 1 + Len(out.message)
         /\ v[1] = ErrorPrefix
         /\ SubSeq(v, 2, Len(v)) = out.message

\* C4: for a non-empty word list and any pattern of translator successes and
\* failures, translate_native_words calls the translator once per word, returns
\* (never raises) a dict whose keys are exactly the input words, and each
\* word's entry is the translated text or the error placeholder with the
\* failure message of that word's own (last) call, whatever the other calls did.
C4_PerWordIsolation ==
    (pc = "translate_returned" /\ native_words # <<>>) =>
        /\ response.kind = "value"
        /\ Len(attempts) = Len(native_words)
        /\ DOMAIN response.value = WordsOf(native_words)
        /\ \A i \in 1..Len(native_words) :
              IsLastAttemptOf(native_words, i)
                  => EntryMatchesOutcome(response.value[native_words[i]], attempts[i])

\* a failed word followed by a different word that succeeded; both are present
C4_Witness ==
    /\ pc = "translate_returned"
    /\ response.kind = "value"
    /\ \E i, j \in 1..Len(native_words) :
          /\ i < j
          /\ native_words[i] # native_words[j]
          /\ ~attempts[i].ok
          /\ attempts[j].ok
          /\ IsLastAttemptOf(native_words, i)
          /\ IsLastAttemptOf(native_words, j)
          /\ response.value[native_words[i]] = ErrorPlaceholder(attempts[i].message)
          /\ response.value[native_words[j]] = attempts[j].text

(***************************************************************************)
(* TextAnalyzer.analyze_text                                               *)
(***************************************************************************)
\* tool.check(text): a list of matches, or the call raises
CheckOutcomes(t, n) ==
    [ok : {TRUE}, matches : CheckResults(t, n, IssueTypes, ReplacementLists)]
        \cup [ok : {FALSE}, message : {<<"unreachable">>}]

IsNative(w) == ~IsAscii(w)

\* [word for word in text.split() if not word.isascii()]
NativeWords(t) == SelectSeq(Split(t), IsNative)

\* faulty variant: counts the words of the corrected text
WordCountOfCorrected(t, ms) == Len(Split(apply_corrections(t, ms)))

\* len(text.split())
WordCount(t, ms) == Len(Split(t))

\* faulty variant: lists only the matches that have replacements
ErrorDetailsOfFixable(t, ms) ==
    LET fixable == SelectSeq(ms, LAMBDA m : m.replacements # <<>>)
    IN  [i \in 1..Len(fixable) |->
            [type |-> fixable[i].ruleIssueType,
             text |-> Slice(t, fixable[i].offset, fixable[i].offset + fixable[i].errorLength),
             message |-> fixable[i].message,
             suggestions |-> fixable[i].replacements]]

\* the list comprehension of lines 85-93
ErrorDetails(t, ms) ==
    [i \in 1..Len(ms) |->
        [type |-> ms[i].ruleIssueType,
         text |-> Slice(t, ms[i].offset, ms[i].offset + ms[i].errorLength),
         message |-> ms[i].message,
         suggestions |-> ms[i].replacements]]

\* faulty variant: a failed check is treated as no matches
CheckFailureSwallowed(chk) == [ok |-> TRUE, matches |-> <<>>]

\* matches = self.tool.check(text), line 76: no try around the call
CheckResult(chk) == chk

\* analyze_text given the outcome of its tool.check call and the outcomes of
\* the translator calls it may make
analyze_text(t, chk, outs) ==
    LET res == CheckResult(chk)
    IN  IF ~res.ok THEN [kind |-> "raised", error |-> res.message, translated |-> 0]
        ELSE LET ms == res.matches
                 tr == translate_native_words(NativeWords(t), outs)
             IN  IF tr.raised
                 THEN [kind |-> "raised", error |-> outs[tr.calls].message,
                       translated |-> tr.calls]
                 ELSE [kind |-> "value",
                       translated |-> tr.calls,
                       corrected_text |-> apply_corrections(t, ms),
                       error_count |-> Len(ms),
                       word_count |-> WordCount(t, ms),
                       error_details |-> ErrorDetails(t, ms),
                       translations |-> tr.dict]

(***************************************************************************)
(* SpecAnalyze: analyze_text run on every text of the bounds, with every   *)
(* outcome of its oracle calls.                                            *)
(***************************************************************************)
AnalyzeAlphabet == {"a", " ", NonAsciiChar}

InitAnalyze ==
    /\ text \in SeqsUpTo(AnalyzeAlphabet, MaxAnalyzeLen)
    /\ pc = "analyze_entry"
    /\ route = "none"
    /\ matches = <<>>
    /\ corrected_text = <<>>
    /\ remaining = 0
    /\ native_words = <<>>
    /\ translations = EmptyDict
    /\ attempts = <<>>
    /\ analysis = [kind |-> "none"]
    /\ response = [kind |-> "none"]
    /\ checks = <<>>
    /\ charts = <<>>

analyze_text_call ==
    /\ pc = "analyze_entry"
    /\ \E chk \in CheckOutcomes(text, MaxAnalyzeMatches) :
       \E outs \in [1..Len(NativeWords(text)) -> BriefOutcomes] :
          LET a == analyze_text(text, chk, outs)
          IN  /\ pc' = "analyze_returned"
              /\ checks' = <<chk>>
              /\ matches' = IF chk.ok THEN chk.matches ELSE <<>>
              /\ native_words' = IF chk.ok THEN NativeWords(text) ELSE <<>>
              /\ attempts' = SubSeq(outs, 1, a.translated)
              /\ analysis' = a
    /\ UNCHANGED <<route, text, corrected_text, remaining, translations, response, charts>>

NextAnalyze == analyze_text_call

SpecAnalyze == InitAnalyze /\ [][NextAnalyze]_vars

(***************************************************************************)
(* TextAnalyzer.create_error_chart                                         *)
(***************************************************************************)
error_type_colors ==
    [grammar |-> "red", typographical |-> "blue", spelling |-> "green", style |-> "orange"]

ColorOf(key) == IF key \in DOMAIN error_type_colors THEN error_type_colors[key] ELSE "gray"

\* Counter(error_types), one bar per key with its colour, saved as a PNG
create_error_chart(ms) ==
    LET keys == {ms[i].ruleIssueType : i \in 1..Len(ms)}
        counter == [k \in keys |-> Cardinality({i \in 1..Len(ms) : ms[i].ruleIssueType = k})]
    IN  [format |-> "png", bars |-> counter, colors |-> [k \in keys |-> ColorOf(k)]]

(***************************************************************************)
(* translate_to_russian's post-processing:                                 *)
(* re.sub(r'([.!?])(\S)', r'\1 \2', translation)                           *)
(***************************************************************************)
Punctuation == {".", "!", "?"}

\* re.sub scans left to right; a match consumes both of its characters, and
\* the scan resumes after them
RECURSIVE ReSubFrom(_, _)
ReSubFrom(s, i) ==
    IF i > Len(s) THEN <<>>
    ELSE IF s[i] \in Punctuation /\ i < Len(s) /\ s[i + 1] \notin Whitespace
         THEN <<s[i], " ", s[i + 1]>> \o ReSubFrom(s, i + 2)
         ELSE <<s[i]>> \o ReSubFrom(s, i + 1)

ReSub(s) == ReSubFrom(s, 1)

(***************************************************************************)
(* Spec: the HTTP endpoints.  A handler runs as one step, with the results *)
(* of its oracle calls chosen in the step; the next request starts from    *)
(* the idle state (nothing is kept between requests).                      *)
(***************************************************************************)
ReqAlphabet == {"a", " ", NonAsciiChar}
ReqTexts == SeqsUpTo(ReqAlphabet, MaxReqLen)

AnalysisRoutes ==
    {"corrected_text", "error_count", "word_count", "error_details", "translate_native_words"}

Idle ==
    /\ pc = "idle"
    /\ route = "none"
    /\ text = <<>>
    /\ matches = <<>>
    /\ corrected_text = <<>>
    /\ remaining = 0
    /\ native_words = <<>>
    /\ translations = EmptyDict
    /\ attempts = <<>>
    /\ analysis = [kind |-> "none"]
    /\ response = [kind |-> "none"]
    /\ checks = <<>>
    /\ charts = <<>>

Init == Idle

\* JSONResponse(content={key: analysis[key]}) of each analysis endpoint
Content(r, a) ==
    CASE r = "corrected_text" -> [corrected_text |-> a.corrected_text]
      [] r = "error_count" -> [error_count |-> a.error_count]
      [] r = "word_count" -> [word_count |-> a.word_count]
      [] r = "error_details" -> [error_details |-> a.error_details]
      [] r = "translate_native_words" -> [translations |-> a.translations]

\* analysis = analyzer.analyze_text(request.text), then the JSONResponse
Handle(r) ==
    /\ pc = "idle"
    /\ \E t \in ReqTexts : \E chk \in CheckOutcomes(t, MaxReqMatches) :
       \E outs \in [1..Len(NativeWords(t)) -> BriefOutcomes] :
          LET a == analyze_text(t, chk, outs)
          IN  /\ pc' = "done"
              /\ route' = r
              /\ text' = t
              /\ checks' = <<chk>>
              /\ matches' = IF chk.ok THEN chk.matches ELSE <<>>
              /\ native_words' = IF chk.ok THEN NativeWords(t) ELSE <<>>
              /\ attempts' = SubSeq(outs, 1, a.translated)
              /\ analysis' = a
              /\ response' = IF a.kind = "raised"
                             THEN [kind |-> "raised", error |-> a.error]
                             ELSE [kind |-> "json", content |-> Content(r, a)]
              /\ UNCHANGED <<corrected_text, remaining, translations, charts>>

corrected_text_endpoint == Handle("corrected_text")

error_count_endpoint == Handle("error_count")

word_count_endpoint == Handle("word_count")

error_details_endpoint == Handle("error_details")

translations_endpoint == Handle("translate_native_words")

\* faulty variant: the chart is drawn whatever the matches
ChartAlways(ms) == FALSE

\* if not matches, line 137
NoMatches(ms) == ms = <<>>

error_chart ==
    /\ pc = "idle"
    /\ \E t \in ReqTexts : \E chk \in CheckOutcomes(t, MaxReqMatches) :
          /\ pc' = "done"
          /\ route' = "error_chart"
          /\ text' = t
          /\ checks' = <<chk>>
          /\ matches' = IF chk.ok THEN chk.matches ELSE <<>>
          /\ IF ~chk.ok
             THEN /\ response' = [kind |-> "raised", error |-> chk.message]
                  /\ charts' = <<>>
             ELSE IF NoMatches(chk.matches)
             THEN /\ response' = [kind |-> "json",
                                  content |-> [message |-> "Oshibok ne obnaruzheno"]]
                  /\ charts' = <<>>
             ELSE /\ response' = [kind |-> "file", media_type |-> "image/png",
                                  filename |-> "error_chart.png",
                                  chart |-> create_error_chart(chk.matches)]
                  /\ charts' = <<chk.matches>>
          /\ UNCHANGED <<corrected_text, remaining, native_words, translations,
                         attempts, analysis>>

\* translator.translate(request.text, src='en', dest='ru'): an object with a
\* translated .text, an object whose .text is None (re.sub then raises
\* TypeError), or the call raises
RussianOutcomes ==
    [kind : {"text"}, text : SeqsUpTo({".", "?", "a", " "}, MaxOutLen)]
        \cup {[kind |-> "no_text"]}
        \cup [kind : {"raised"}, message : FailureMessages]

\* faulty variant: no except clause
RuUncaught(t, out) ==
    IF out.kind = "raised" THEN [kind |-> "raised", error |-> out.message]
    ELSE IF out.kind = "no_text" THEN [kind |-> "raised", error |-> <<"TypeError">>]
    ELSE [kind |-> "json",
          content |-> [original_text |-> t, translated_text |-> ReSub(out.text)]]

\* the try block and its except Exception, lines 146-152
RuResponse(t, out) ==
    IF out.kind = "raised" THEN [kind |-> "json", content |-> [error |-> out.message]]
    ELSE IF out.kind = "no_text"
    THEN [kind |-> "json", content |-> [error |-> <<"TypeError">>]]
    ELSE [kind |-> "json",
          content |-> [original_text |-> t, translated_text |-> ReSub(out.text)]]

translate_to_russian ==
    /\ pc = "idle"
    /\ \E t \in ReqTexts : \E out \in RussianOutcomes :
          /\ pc' = "done"
          /\ route' = "translate_to_russian"
          /\ text' = t
          /\ attempts' = <<out>>
          /\ response' = RuResponse(t, out)
          /\ UNCHANGED <<matches, corrected_text, remaining, native_words,
                         translations, analysis, checks, charts>>

root ==
    /\ pc = "idle"
    /\ pc' = "done"
    /\ route' = "root"
    /\ response' = [kind |-> "json", content |-> [message |-> "Text Analyzer API"]]
    /\ UNCHANGED <<text, matches, corrected_text, remaining, native_words,
                   translations, attempts, analysis, checks, charts>>

\* the response is sent; the handler's locals are gone
NextRequest ==
    /\ pc = "done"
    /\ pc' = "idle"
    /\ route' = "none"
    /\ text' = <<>>
    /\ matches' = <<>>
    /\ native_words' = <<>>
    /\ attempts' = <<>>
    /\ analysis' = [kind |-> "none"]
    /\ response' = [kind |-> "none"]
    /\ checks' = <<>>
    /\ charts' = <<>>
    /\ UNCHANGED <<corrected_text, remaining, translations>>

Next ==
    \/ corrected_text_endpoint
    \/ error_count_endpoint
    \/ word_count_endpoint
    \/ error_details_endpoint
    \/ translations_endpoint
    \/ error_chart
    \/ translate_to_russian
    \/ root
    \/ NextRequest

Spec == Init /\ [][Next]_vars

(***************************************************************************)
(* Claims about analyze_text (checked under SpecAnalyze).                  *)
(***************************************************************************)
Returned == pc = "analyze_returned" /\ analysis.kind = "value"

\* no whitespace-delimited token of t holds a non-ASCII character
NoNativeToken(t) == \A i \in 1..Len(t) : t[i] # NonAsciiChar

\* C5: the translations are never an empty mapping, and for a text without
\* a non-ASCII token they are exactly the single-entry sentinel, obtained
\* without a translator call.
C5_SentinelNotEmpty ==
    Returned =>
        /\ DOMAIN analysis.translations # {}
        /\ NoNativeToken(text) =>
              /\ DOMAIN analysis.translations = {SentinelKey}
              /\ analysis.translations[SentinelKey] = SentinelValue
              /\ attempts = <<>>

C5_Witness ==
    /\ Returned
    /\ text = <<"a">>
    /\ matches # <<>>
    /\ analysis.translations = Sentinel
    /\ attempts = <<>>

\* the characters of t at [offset, offset + errorLength)
Substring(t, m) == [k \in 1..m.errorLength |-> t[m.offset + k]]

\* C6: error_count, the length of error_details and the number of matches
\* agree, and the i-th record is the projection of the i-th match.
C6_DetailsProjectMatches ==
    Returned =>
        /\ analysis.error_count = Len(matches)
        /\ Len(analysis.error_details) = Len(matches)
        /\ \A i \in 1..Len(matches) :
              /\ analysis.error_details[i].type = matches[i].ruleIssueType
              /\ analysis.error_details[i].text = Substring(text, matches[i])
              /\ analysis.error_details[i].message = matches[i].message
              /\ analysis.error_details[i].suggestions = matches[i].replacements

\* two matches of different types, the first without replacements
C6_Witness ==
    /\ Returned
    /\ Len(matches) = 2
    /\ matches[1].replacements = <<>>
    /\ matches[1].errorLength > 0
    /\ matches[2].replacements # <<>>
    /\ matches[1].ruleIssueType # matches[2].ruleIssueType
    /\ analysis.error_count = 2
    /\ analysis.error_details[1].text = <<"a">>
    /\ analysis.error_details[1].suggestions = <<>>
    /\ analysis.error_details[2].type = matches[2].ruleIssueType

\* the number of whitespace-delimited tokens: the positions where one starts
TokenCount(t) ==
    Cardinality({i \in 1..Len(t) :
        t[i] \notin Whitespace /\ (i = 1 \/ t[i - 1] \in Whitespace)})

\* C8: word_count is the token count of the original text, whatever the
\* corrections do to the token count of corrected_text.
C8_WordCountOfOriginal ==
    Returned => analysis.word_count = TokenCount(text)

\* the corrected text has another token count than the original
C8_Witness ==
    /\ Returned
    /\ TokenCount(analysis.corrected_text) # TokenCount(text)
    /\ analysis.word_count = TokenCount(text)
    /\ analysis.word_count = 1

(***************************************************************************)
(* Claims about the endpoints (checked under Spec).                        *)
(***************************************************************************)
AtPunctuationGap(s, i) ==
    s[i] \in Punctuation /\ i < Len(s) /\ s[i + 1] \notin Whitespace

\* s with one space inserted after every character that is a '.', '!' or '?'
\* immediately followed by a non-whitespace character
RECURSIVE SpacedFrom(_, _)
SpacedFrom(s, i) ==
    IF i > Len(s) THEN <<>>
    ELSE (IF AtPunctuationGap(s, i) THEN <<s[i], " ">> ELSE <<s[i]>>) \o SpacedFrom(s, i + 1)

Translated ==
    pc = "done" /\ route = "translate_to_russian" /\ attempts[1].kind = "text"

\* C3: the returned translated_text is the oracle output with a space
\* inserted at every '.', '!' or '?' immediately followed by a non-whitespace
\* character, so it holds no such punctuation mark followed by non-whitespace.
C3_EveryGapSpaced ==
    Translated =>
        /\ response.content.translated_text = SpacedFrom(attempts[1].text, 1)
        /\ \A i \in 1..Len(response.content.translated_text) :
              ~AtPunctuationGap(response.content.translated_text, i)

\* C7: create_error_chart is only ever called with a non-empty match list;
\* with zero matches the endpoint answers the no-error message and draws
\* nothing; no image without bars is returned.
C7_ChartGuard ==
    (pc = "done" /\ route = "error_chart") =>
        /\ \A i \in 1..Len(charts) : charts[i] # <<>>
        /\ (checks[1].ok /\ checks[1].matches = <<>>) =>
              /\ response.kind = "json"
              /\ DOMAIN response.content = {"message"}
              /\ charts = <<>>
        /\ response.kind = "file" => DOMAIN response.chart.bars # {}

C7_Witness ==
    /\ pc = "done"
    /\ route = "error_chart"
    /\ text # <<>>
    /\ checks[1].ok
    /\ checks[1].matches = <<>>
    /\ response = [kind |-> "json", content |-> [message |-> "Oshibok ne obnaruzheno"]]
    /\ charts = <<>>

RuFailed == attempts[1].kind \in {"raised", "no_text"}

\* C9: translate_to_russian never raises; a failed translation (or failed
\* post-processing) gives a response with only an error, a success gives the
\* original text with the translated text, never an error with a translation.
C9_ErrorsAreResponses ==
    (pc = "done" /\ route = "translate_to_russian") =>
        /\ response.kind = "json"
        /\ RuFailed => DOMAIN response.content = {"error"}
        /\ ~RuFailed =>
              /\ DOMAIN response.content = {"original_text", "translated_text"}
              /\ response.content.original_text = text
        /\ ~({"error", "translated_text"} \subseteq DOMAIN response.content)

C9_Witness ==
    /\ pc = "done"
    /\ route = "translate_to_russian"
    /\ attempts[1].kind = "raised"
    /\ response.kind = "json"
    /\ response.content = [error |-> attempts[1].message]

\* C10: an analysis request calls the grammar checker once; when that call
\* fails the request ends with that failure, without an analysis result and
\* without a translator call.
C10_CheckFailurePropagates ==
    (pc = "done" /\ route \in AnalysisRoutes) =>
        /\ Len(checks) = 1
        /\ ~checks[1].ok =>
              /\ analysis.kind = "raised"
              /\ response = [kind |-> "raised", error |-> checks[1].message]
              /\ attempts = <<>>

\* the failed check was on a text with a word the translator would be given
C10_Witness ==
    /\ pc = "done"
    /\ route \in AnalysisRoutes
    /\ ~checks[1].ok
    /\ text = <<NonAsciiChar>>
    /\ response.kind = "raised"
    /\ attempts = <<>>

====
